---- MODULE Spec2Model ----
(***************************************************************************)
(* Model of the OCRean backend: the text-processing service                 *)
(* (backend/api/app/services/text.py, class TextProcessor), the two         *)
(* document stores (services/files.py, services/s3_storage.py) and the      *)
(* endpoints of backend/api/app/main.py.                                    *)
(*                                                                          *)
(* A Python str is a sequence of Unicode code points (naturals).  The       *)
(* Python value None is the one-element sequence <<-1>>, which is no str.   *)
(* The two external collaborators, pecab's Pecab.spacing and kss's          *)
(* split_sentences, are nondeterministic choices made by the actions.       *)
(***************************************************************************)
EXTENDS Integers, Sequences, FiniteSets, TLC

VARIABLES
    pc,             \* "idle" before the call, "done" after it returned or raised
    op,             \* name of the method that was called
    spacer,         \* TextProcessor._spacer: "None" or "Pecab"
    text,           \* the text / sentence argument of the call
    min_length,     \* the min_length argument of extract_vocabulary
    outcome,        \* what Pecab.spacing did in this call
    raw_sentences,  \* what kss.split_sentences returned in this call
    kss_calls,      \* number of calls of kss.split_sentences in this call
    normalized,     \* the value of clean_text(text) inside the call
    result,         \* the returned value
    raised,         \* TRUE iff the call ended with an exception
    file_storage,   \* main.file_storage: "none", "local" or "s3"
    bucket_name,    \* S3FileStorage.bucket_name, "" while there is none
    init_error,     \* message of the ValueError S3FileStorage() raised, the
                    \* exception of head_bucket it let through, or ""
    raw_files,      \* the keys under raw/
    uploads,        \* the save_uploaded_file calls waiting in file.read()
    ocr_texts,      \* document id -> text stored under ocr/
    sentence_records, \* document id -> payload stored under sentences/
    saved_ocr,      \* ids for which a save_ocr_text has completed
    request,        \* the last storage or endpoint call and its arguments
    response,       \* its HTTP outcome: status and detail
    returned,       \* the value it returned
    io,             \* the file or S3 client calls it made, in order
    calls,          \* number of storage and endpoint calls that have ended
    pecab_inits,    \* number of Pecab() constructions in this process
    threads         \* thread -> the call it makes on the shared processor

textVars == <<pc, op, text, min_length, outcome, raw_sentences,
              kss_calls, normalized, result, raised, threads>>

docVars == <<file_storage, bucket_name, init_error, raw_files, uploads,
             ocr_texts, sentence_records, saved_ocr, request, response,
             returned, io, calls>>

vars == <<textVars, spacer, pecab_inits, docVars>>

-----------------------------------------------------------------------------
(* Code points                                                              *)

TAB == 9
NEWLINE == 10
SPACE == 32
DQUOTE == 34
SQUOTE == 39
HYPHEN == 45
PERIOD == 46
DIGIT_ONE == 49
BACKSLASH == 92
UNDERSCORE == 95
LETTER_A == 97
LETTER_N == 110
HANGUL_FIRST == 44032
HANGUL_LAST == 55203
HANGUL_GA == 44032
HANGUL_NA == 45208

None == <<-1>>

\* the characters of str.isspace() / of the regex class \s of a str pattern
WHITESPACE ==
    (9..13) \cup (28..32) \cup (8192..8202)
        \cup {133, 160, 5760, 8232, 8233, 8239, 8287, 12288}

IsSpace(c) == c \in WHITESPACE

\* the regex class \d, on ASCII and Hangul text
IsDigit(c) == c \in 48..57

\* the regex class \w, on ASCII and Hangul text
IsWord(c) ==
    \/ IsDigit(c)
    \/ c \in 65..90
    \/ c \in 97..122
    \/ c = UNDERSCORE
    \/ c \in HANGUL_FIRST..HANGUL_LAST

\* the character class [가-힣] of KOREAN_PATTERN
IsHangul(c) == c \in HANGUL_FIRST..HANGUL_LAST

SENTENCE_STRIP_CHARS ==
    {32, 58, 59, 45, 8212, 34, 39, 8220, 8221, 8216, 8217, 183, 8226,
     40, 41, 91, 93}

MIN_SENTENCE_LENGTH == 3

-----------------------------------------------------------------------------
(* str and re primitives                                                    *)

\* s[i:] of Python with a 1-based i
From(s, i) == SubSeq(s, i, Len(s))

\* str.replace / re.sub of a two-character literal, leftmost first,
\* non-overlapping, in a single pass
RECURSIVE replace2(_, _, _, _)
replace2(s, c1, c2, rep) ==
    IF Len(s) = 0 THEN <<>>
    ELSE IF Len(s) >= 2 /\ s[1] = c1 /\ s[2] = c2
         THEN rep \o replace2(From(s, 3), c1, c2, rep)
         ELSE <<s[1]>> \o replace2(Tail(s), c1, c2, rep)

\* ESCAPED_QUOTE_PATTERN.sub('"', s)
ESCAPED_QUOTE_PATTERN_sub(s) == replace2(s, BACKSLASH, DQUOTE, <<DQUOTE>>)

\* WHITESPACE_PATTERN.sub(" ", s): every maximal whitespace run becomes " "
RECURSIVE WHITESPACE_PATTERN_sub(_)
WHITESPACE_PATTERN_sub(s) ==
    IF Len(s) = 0 THEN <<>>
    ELSE IF IsSpace(s[1])
         THEN IF Len(s) >= 2 /\ IsSpace(s[2])
              THEN WHITESPACE_PATTERN_sub(Tail(s))
              ELSE <<SPACE>> \o WHITESPACE_PATTERN_sub(Tail(s))
         ELSE <<s[1]>> \o WHITESPACE_PATTERN_sub(Tail(s))

RECURSIVE lstrip(_, _)
lstrip(s, chars) ==
    IF Len(s) > 0 /\ s[1] \in chars THEN lstrip(Tail(s), chars) ELSE s

RECURSIVE rstrip(_, _)
rstrip(s, chars) ==
    IF Len(s) > 0 /\ s[Len(s)] \in chars
    THEN rstrip(SubSeq(s, 1, Len(s) - 1), chars)
    ELSE s

\* str.strip(chars); str.strip() is strip(s, WHITESPACE)
strip(s, chars) == rstrip(lstrip(s, chars), chars)

Max(S) == CHOOSE x \in S : \A y \in S : y <= x

Min(S) == CHOOSE x \in S : \A y \in S : x <= y

\* the zero-width assertion \b at the gap before s[p], p in 1..Len(s)+1
WordBoundary(s, p) ==
    LET before == p > 1 /\ IsWord(s[p - 1])
        after == p <= Len(s) /\ IsWord(s[p])
    IN  before # after

\* DigitOrphanMatchLen for the pattern \b\d{1,5}\b
DigitOrphanMatchLen_up_to_5(s, i) ==
    LET ks == {k \in 1..5 : /\ i + k - 1 <= Len(s)
                            /\ \A j \in i..(i + k - 1) : IsDigit(s[j])
                            /\ WordBoundary(s, i + k)}
    IN  IF WordBoundary(s, i) /\ ks # {} THEN Max(ks) ELSE 0

\* length of the match of DIGIT_ORPHAN_PATTERN (\b\d{1,4}\b) starting at
\* s[i], 0 when there is none; \d{1,4} is greedy and backtracks
DigitOrphanMatchLen(s, i) ==
    LET ks == {k \in 1..4 : /\ i + k - 1 <= Len(s)
                            /\ \A j \in i..(i + k - 1) : IsDigit(s[j])
                            /\ WordBoundary(s, i + k)}
    IN  IF WordBoundary(s, i) /\ ks # {} THEN Max(ks) ELSE 0

RECURSIVE DigitOrphanScan(_, _)
DigitOrphanScan(s, i) ==
    IF i > Len(s) THEN <<>>
    ELSE LET k == DigitOrphanMatchLen(s, i)
         IN  IF k > 0
             THEN DigitOrphanScan(s, i + k)
             ELSE <<s[i]>> \o DigitOrphanScan(s, i + 1)

\* DIGIT_ORPHAN_PATTERN.sub("", s)
DIGIT_ORPHAN_PATTERN_sub(s) == DigitOrphanScan(s, 1)

\* NOISE_PATTERN.fullmatch(s): ^[\W\d_]+$ over the whole string
NOISE_PATTERN_fullmatch(s) ==
    /\ Len(s) >= 1
    /\ \A i \in 1..Len(s) : ~IsWord(s[i]) \/ IsDigit(s[i]) \/ s[i] = UNDERSCORE

\* QuoteMatchEnd for the pattern (["'])(.+)\1, whose .+ is greedy
QuoteMatchEnd_greedy(s, i) ==
    IF s[i] \notin {DQUOTE, SQUOTE} THEN 0
    ELSE LET js == {j \in (i + 2)..Len(s) :
                       /\ s[j] = s[i]
                       /\ \A m \in (i + 1)..(j - 1) : s[m] # NEWLINE}
         IN  IF js = {} THEN 0 ELSE Max(js)

\* index of the last character of the match of QUOTE_PATTERN
\* ((["'])(.+?)\1) starting at s[i], 0 when there is none; .+? is lazy and
\* . matches every character but the newline
QuoteMatchEnd(s, i) ==
    IF s[i] \notin {DQUOTE, SQUOTE} THEN 0
    ELSE LET js == {j \in (i + 2)..Len(s) :
                       /\ s[j] = s[i]
                       /\ \A m \in (i + 1)..(j - 1) : s[m] # NEWLINE}
         IN  IF js = {} THEN 0 ELSE Min(js)

\* KOREAN_PATTERN.findall(s): the maximal runs of [가-힣], left to right
RECURSIVE KOREAN_PATTERN_findall(_)
KOREAN_PATTERN_findall(s) ==
    IF Len(s) = 0 THEN <<>>
    ELSE IF IsHangul(s[1])
         THEN LET k == Max({n \in 1..Len(s) : \A j \in 1..n : IsHangul(s[j])})
              IN  <<SubSeq(s, 1, k)>> \o KOREAN_PATTERN_findall(From(s, k + 1))
         ELSE KOREAN_PATTERN_findall(Tail(s))

\* a < b for two str: code point by code point, a proper prefix is smaller
StrLess(a, b) ==
    \E i \in 1..(Len(b)) :
        /\ i <= Len(a) + 1
        /\ \A j \in 1..(i - 1) : a[j] = b[j]
        /\ (i = Len(a) + 1 \/ a[i] < b[i])

\* sorted(S) for a set S of str
RECURSIVE sorted(_)
sorted(S) ==
    IF S = {} THEN <<>>
    ELSE LET m == CHOOSE x \in S : \A y \in S : x = y \/ StrLess(x, y)
         IN  <<m>> \o sorted(S \ {m})

Range(f) == {f[i] : i \in DOMAIN f}

-----------------------------------------------------------------------------
(* TextProcessor                                                            *)

\* Pecab.spacing was not called
NotCalled == [called |-> FALSE, raises |-> FALSE, value |-> <<>>]

\* _maybe_apply_spacing without the try/except around spacing()
_maybe_apply_spacing_uncaught(sp, t, o) ==
    IF sp = "None" THEN [raised |-> FALSE, value |-> t]
    ELSE IF o.raises THEN [raised |-> TRUE, value |-> t]
    ELSE [raised |-> FALSE, value |-> o.value]

\* _maybe_apply_spacing(text); o is what self._spacer.spacing(text) does
_maybe_apply_spacing(sp, t, o) ==
    IF sp = "None" THEN [raised |-> FALSE, value |-> t]
    ELSE IF o.raises THEN [raised |-> FALSE, value |-> t]
    ELSE [raised |-> FALSE, value |-> o.value]

\* clean_text up to the call of _maybe_apply_spacing: its argument
pre_spacing(t) ==
    LET given == IF t = None \/ t = <<>> THEN <<>> ELSE t
        n1 == replace2(given, BACKSLASH, LETTER_N, <<SPACE>>)
        n2 == ESCAPED_QUOTE_PATTERN_sub(n1)
    IN  WHITESPACE_PATTERN_sub(n2)

\* self._spacer giving up the spacer once spacing() has raised
spacer_after_dropped_on_failure(sp, o) ==
    IF o.called /\ o.raises THEN "None" ELSE sp

\* self._spacer after _maybe_apply_spacing: no method assigns it
spacer_after(sp, o) == sp

\* the last two statements of clean_text, on what _maybe_apply_spacing gave
post_spacing(n) == strip(WHITESPACE_PATTERN_sub(n), WHITESPACE)

\* clean_text without the second WHITESPACE_PATTERN.sub
clean_text_no_recollapse(sp, t, o) ==
    LET spaced == _maybe_apply_spacing(sp, pre_spacing(t), o)
    IN  IF spaced.raised
        THEN [raised |-> TRUE, value |-> None]
        ELSE [raised |-> FALSE, value |-> strip(spaced.value, WHITESPACE)]

\* clean_text(text)
clean_text(sp, t, o) ==
    LET spaced == _maybe_apply_spacing(sp, pre_spacing(t), o)
    IN  IF spaced.raised
        THEN [raised |-> TRUE, value |-> None]
        ELSE [raised |-> FALSE,
              value |-> strip(WHITESPACE_PATTERN_sub(spaced.value), WHITESPACE)]

\* sentence_text without WHITESPACE_PATTERN.sub(" ", text)
sentence_text_no_collapse(sentence) ==
    LET t1 == strip(sentence, SENTENCE_STRIP_CHARS)
        t2 == DIGIT_ORPHAN_PATTERN_sub(t1)
    IN  strip(t2, SENTENCE_STRIP_CHARS)

\* sentence_text without the second strip(SENTENCE_STRIP_CHARS)
sentence_text_trim_once(sentence) ==
    LET t1 == strip(sentence, SENTENCE_STRIP_CHARS)
        t2 == DIGIT_ORPHAN_PATTERN_sub(t1)
    IN  WHITESPACE_PATTERN_sub(t2)

\* the local text of _normalize_sentence before the two rejection tests
sentence_text(sentence) ==
    LET t1 == strip(sentence, SENTENCE_STRIP_CHARS)
        t2 == DIGIT_ORPHAN_PATTERN_sub(t1)
    IN  strip(WHITESPACE_PATTERN_sub(t2), SENTENCE_STRIP_CHARS)

\* _normalize_sentence without the MIN_SENTENCE_LENGTH test
_normalize_sentence_no_length_test(sentence) ==
    IF sentence = None \/ sentence = <<>> THEN None
    ELSE LET t == sentence_text(sentence)
         IN  IF NOISE_PATTERN_fullmatch(t) THEN None ELSE t

\* _normalize_sentence without the NOISE_PATTERN test
_normalize_sentence_no_noise_test(sentence) ==
    IF sentence = None \/ sentence = <<>> THEN None
    ELSE LET t == sentence_text(sentence)
         IN  IF Len(t) < MIN_SENTENCE_LENGTH THEN None ELSE t

\* _normalize_sentence(sentence)
_normalize_sentence(sentence) ==
    IF sentence = None \/ sentence = <<>> THEN None
    ELSE LET t == sentence_text(sentence)
         IN  IF Len(t) < MIN_SENTENCE_LENGTH THEN None
             ELSE IF NOISE_PATTERN_fullmatch(t) THEN None
             ELSE t

\* the loop of _split_quoted_segments: i is the position finditer scans
\* from, last is the position of sentence[last_index]
RECURSIVE SplitQuotedScan(_, _, _)
SplitQuotedScan(s, i, last) ==
    IF i > Len(s)
    THEN LET suffix == strip(From(s, last), WHITESPACE)
         IN  IF suffix # <<>> THEN <<suffix>> ELSE <<>>
    ELSE LET j == QuoteMatchEnd(s, i)
         IN  IF j = 0 THEN SplitQuotedScan(s, i + 1, last)
             ELSE LET prefix == strip(SubSeq(s, last, i - 1), WHITESPACE)
                      quoted == strip(SubSeq(s, i, j), WHITESPACE)
                  IN  (IF prefix # <<>> THEN <<prefix>> ELSE <<>>)
                      \o (IF quoted # <<>> THEN <<quoted>> ELSE <<>>)
                      \o SplitQuotedScan(s, j + 1, j + 1)

\* SplitQuotedScan appending match.group(2), the text between the quotes,
\* in place of match.group(0)
RECURSIVE SplitQuotedScan_inner_group(_, _, _)
SplitQuotedScan_inner_group(s, i, last) ==
    IF i > Len(s)
    THEN LET suffix == strip(From(s, last), WHITESPACE)
         IN  IF suffix # <<>> THEN <<suffix>> ELSE <<>>
    ELSE LET j == QuoteMatchEnd(s, i)
         IN  IF j = 0 THEN SplitQuotedScan_inner_group(s, i + 1, last)
             ELSE LET prefix == strip(SubSeq(s, last, i - 1), WHITESPACE)
                      quoted == strip(SubSeq(s, i + 1, j - 1), WHITESPACE)
                  IN  (IF prefix # <<>> THEN <<prefix>> ELSE <<>>)
                      \o (IF quoted # <<>> THEN <<quoted>> ELSE <<>>)
                      \o SplitQuotedScan_inner_group(s, j + 1, j + 1)

\* _split_quoted_segments keeping only the text between the quotes
_split_quoted_segments_inner_group(sentence) ==
    SplitQuotedScan_inner_group(sentence, 1, 1)

\* _split_quoted_segments(sentence)
_split_quoted_segments(sentence) == SplitQuotedScan(sentence, 1, 1)

\* the inner loop of _post_process_sentences over the segments of a sentence
RECURSIVE NormalizeSegments(_)
NormalizeSegments(segments) ==
    IF Len(segments) = 0 THEN <<>>
    ELSE LET n == _normalize_sentence(Head(segments))
         IN  (IF n # None /\ n # <<>> THEN <<n>> ELSE <<>>)
             \o NormalizeSegments(Tail(segments))

\* _post_process_sentences(sentences)
RECURSIVE _post_process_sentences(_)

\* _post_process_sentences with results.insert(0, normalized) in place of
\* results.append(normalized): every kept sentence goes in front
_post_process_sentences_insert_first(sentences) ==
    IF Len(sentences) = 0 THEN <<>>
    ELSE LET kept == NormalizeSegments(
                         _split_quoted_segments(Head(sentences)))
         IN  _post_process_sentences(Tail(sentences))
             \o [k \in 1..Len(kept) |-> kept[Len(kept) + 1 - k]]

_post_process_sentences(sentences) ==
    IF Len(sentences) = 0 THEN <<>>
    ELSE NormalizeSegments(_split_quoted_segments(Head(sentences)))
         \o _post_process_sentences(Tail(sentences))

\* split_into_sentences after its call of clean_text
sentences_of(n, raw) ==
    IF n = <<>> THEN <<>> ELSE _post_process_sentences(raw)

\* split_into_sentences without the test for an empty normalized text
split_into_sentences_no_empty_test(sp, t, o, raw) ==
    LET c == clean_text(sp, t, o)
    IN  IF c.raised
        THEN [raised |-> TRUE, normalized |-> None, invoked |-> FALSE,
              value |-> <<>>]
        ELSE [raised |-> FALSE, normalized |-> c.value, invoked |-> TRUE,
              value |-> _post_process_sentences(raw)]

\* split_into_sentences(text); raw is what split_sentences(normalized)
\* returns when it is called
split_into_sentences(sp, t, o, raw) ==
    LET c == clean_text(sp, t, o)
    IN  IF c.raised
        THEN [raised |-> TRUE, normalized |-> None, invoked |-> FALSE,
              value |-> <<>>]
        ELSE IF c.value = <<>>
        THEN [raised |-> FALSE, normalized |-> c.value, invoked |-> FALSE,
              value |-> <<>>]
        ELSE [raised |-> FALSE, normalized |-> c.value, invoked |-> TRUE,
              value |-> _post_process_sentences(raw)]

\* extract_vocabulary after its call of clean_text
vocabulary_of(n, m) ==
    LET words == KOREAN_PATTERN_findall(n)
        bound == IF m > 1 THEN m ELSE 1
    IN  sorted({w \in Range(words) : Len(w) >= bound})

\* extract_vocabulary returning the filtered words as found, not sorted(set)
extract_vocabulary_unsorted(sp, t, o, m) ==
    LET c == clean_text(sp, t, o)
        words == KOREAN_PATTERN_findall(c.value)
        bound == IF m > 1 THEN m ELSE 1
    IN  IF c.raised
        THEN [raised |-> TRUE, normalized |-> None, value |-> <<>>]
        ELSE [raised |-> FALSE, normalized |-> c.value,
              value |-> SelectSeq(words, LAMBDA w : Len(w) >= bound)]

\* extract_vocabulary rejecting a min_length below 1 instead of clamping it
extract_vocabulary_rejects_nonpositive(sp, t, o, m) ==
    LET c == clean_text(sp, t, o)
        words == KOREAN_PATTERN_findall(c.value)
        filtered == {w \in Range(words) : Len(w) >= m}
    IN  IF c.raised \/ m < 1
        THEN [raised |-> TRUE, normalized |-> None, value |-> <<>>]
        ELSE [raised |-> FALSE, normalized |-> c.value,
              value |-> sorted(filtered)]

\* extract_vocabulary(text, min_length)
extract_vocabulary(sp, t, o, m) ==
    LET c == clean_text(sp, t, o)
        words == KOREAN_PATTERN_findall(c.value)
        bound == IF m > 1 THEN m ELSE 1
        filtered == {w \in Range(words) : Len(w) >= bound}
    IN  IF c.raised
        THEN [raised |-> TRUE, normalized |-> None, value |-> <<>>]
        ELSE [raised |-> FALSE, normalized |-> c.value,
              value |-> sorted(filtered)]

-----------------------------------------------------------------------------
(* Document ids, HTTP errors and storage keys                               *)

\* document ids callers send: two UUIDs in canonical form, the first one
\* again in upper case, and a string that is no UUID
UUID_A == "aaaaaaaa-aaaa-4aaa-8aaa-aaaaaaaaaaaa"
UUID_A_UPPER == "AAAAAAAA-AAAA-4AAA-8AAA-AAAAAAAAAAAA"
UUID_B == "bbbbbbbb-bbbb-4bbb-8bbb-bbbbbbbbbbbb"
PATH_TRAVERSAL == "../etc/passwd"

Uuids == {UUID_A, UUID_B}

DocumentIds == {UUID_A, UUID_A_UPPER, UUID_B, PATH_TRAVERSAL}

\* str(uuid.UUID(s)): the lower-case hyphenated form of the UUID, or
\* "ValueError" when s is no UUID
uuid_UUID(s) ==
    CASE s \in Uuids -> s
      [] s = UUID_A_UPPER -> UUID_A
      [] OTHER -> "ValueError"

\* the outcome of a call that raised no HTTPException
OK == [status |-> 200, detail |-> ""]

HTTPException(status_code, detail) ==
    [status |-> status_code, detail |-> detail]

INVALID_DOCUMENT_ID == "Invalid document_id format."
OCR_TEXT_NOT_FOUND == "OCR text not found. Run /documents/{id}/ocr first."
SENTENCES_NOT_FOUND ==
    "No sentence data found. Run /documents/{id}/sentences first."
DOCUMENT_NOT_FOUND == "Document not found. Upload first."

\* _validate_document_id accepting every string as it is
_validate_document_id_accepts_any(document_id) ==
    [error |-> OK, value |-> document_id]

\* _validate_document_id(document_id), the same in both backends
_validate_document_id(document_id) ==
    LET validated == uuid_UUID(document_id)
    IN  IF validated = "ValueError"
        THEN [error |-> HTTPException(400, INVALID_DOCUMENT_ID), value |-> ""]
        ELSE [error |-> OK, value |-> validated]

\* the key f"{prefix}/{document_id}{ext}", a file name under base_dir/prefix
Key(prefix, document_id, ext) ==
    [prefix |-> prefix, id |-> document_id, ext |-> ext]

\* the value None where a key or path is expected
NoKey == Key("", "", "")

\* one call of the S3 client, or of pathlib on the local disk
IO(call, bucket, key) == [call |-> call, bucket |-> bucket, key |-> key]

\* f with f[k] set to v
Put(f, k, v) == [x \in DOMAIN f \cup {k} |-> IF x = k THEN v ELSE f[x]]

PDF_CONTENT_TYPE == "application/pdf"
DEFAULT_IMAGE_EXTENSION == ".jpg"

\* content_type.startswith("image/")
IsImage(content_type) == content_type \in {"image/png", "image/bmp"}

\* Path(filename).suffix
Suffix(filename) ==
    CASE filename = "scan.png" -> ".png"
      [] filename = "scan.bmp" -> ".bmp"
      [] OTHER -> ""

\* _resolve_extension(file, content_type), the same in both backends
_resolve_extension(filename, content_type) ==
    IF content_type = PDF_CONTENT_TYPE
    THEN [error |-> OK, value |-> ".pdf"]
    ELSE IF IsImage(content_type)
    THEN [error |-> OK,
          value |-> IF filename # "" /\ Suffix(filename) # ""
                    THEN Suffix(filename)
                    ELSE DEFAULT_IMAGE_EXTENSION]
    ELSE [error |-> HTTPException(400, "Unsupported file type"),
          value |-> ""]

-----------------------------------------------------------------------------
(* LocalFileStorage and S3FileStorage                                       *)
(* b is the backend, bucket the configured bucket ("" on the local disk),   *)
(* fault says that the S3 client calls of this operation end with a         *)
(* ClientError other than a missing key (on the local disk: that writing    *)
(* the upload fails).                                                        *)

\* an exception of head_bucket that is no ClientError (NoCredentialsError,
\* EndpointConnectionError, ...): _verify_bucket_exists does not catch it
BOTOCORE_ERROR == "botocore.exceptions.BotoCoreError"

\* S3FileStorage._verify_bucket_exists(); head is "ok", the error code of
\* the ClientError head_bucket raised, or "BotoCoreError" when head_bucket
\* raised another exception, which leaves the constructor as it is
_verify_bucket_exists(bucket, head) ==
    [error |-> CASE head = "ok" -> ""
                 [] head = "BotoCoreError" -> BOTOCORE_ERROR
                 [] head = "404" -> "S3 bucket '{bucket_name}' does not exist"
                 [] head = "403" -> "Access denied to S3 bucket '{bucket_name}'"
                 [] OTHER -> "Failed to verify S3 bucket '{bucket_name}': {e}",
     io |-> <<IO("head_bucket", bucket, NoKey)>>]

\* S3FileStorage.__init__ going on to the client with an empty bucket name
S3FileStorage_init_no_name_test(bucket, head) ==
    _verify_bucket_exists(bucket, head)

\* S3FileStorage.__init__(bucket_name, ...)
S3FileStorage_init(bucket, head) ==
    IF bucket = ""
    THEN [error |-> "S3 bucket name is required", io |-> <<>>]
    ELSE _verify_bucket_exists(bucket, head)

\* save_uploaded_file up to uuid.uuid4(): the content-type test and
\* _resolve_extension, the same in both backends
upload_extension(file) ==
    IF file.content_type = ""
    THEN [error |-> HTTPException(400, "Could not determine file type"),
          value |-> ""]
    ELSE _resolve_extension(file.filename, file.content_type)

\* how the try block of save_uploaded_file ends: the file is stored,
\* file.read() raises, the write raises an exception that is no
\* ClientError, or put_object raises a ClientError
SaveOutcomes(b) ==
    {"stored", "read raises", "write raises"}
        \cup (IF b = "s3" THEN {"ClientError"} ELSE {})

\* what a write that raises can leave behind: write_bytes may fail at the
\* open, before the file exists, or later, when the file is on disk;
\* put_object may fail before or after the service stored the object
LeftBehind(how) == IF how = "write raises" THEN BOOLEAN ELSE {FALSE}

\* save_uploaded_file(file); document_id is what uuid.uuid4() returns, how
\* is the way the try block ends and left tells whether a write that raised
\* left the object under its key
save_uploaded_file(b, bucket, raw, file, document_id, how, left) ==
    LET extension == upload_extension(file)
        key == Key("raw", document_id, extension.value)
        write == IF b = "s3" THEN IO("put_object", bucket, key)
                 ELSE IO("write_bytes", bucket, key)
    IN  IF extension.error # OK
        THEN [error |-> extension.error, value |-> "", raw |-> raw,
              io |-> <<>>]
        ELSE IF how = "read raises"
        THEN [error |-> HTTPException(500, "Failed to save file"),
              value |-> "", raw |-> raw, io |-> <<>>]
        ELSE IF how = "write raises"
        THEN [error |-> HTTPException(500, "Failed to save file"),
              value |-> "",
              raw |-> IF left THEN raw \cup {key} ELSE raw,
              io |-> <<write>>]
        ELSE IF how = "ClientError"
        THEN [error |-> HTTPException(500, "Failed to save file to S3"),
              value |-> "", raw |-> raw, io |-> <<write>>]
        ELSE [error |-> OK, value |-> document_id,
              raw |-> raw \cup {key}, io |-> <<write>>]

\* the extensions S3FileStorage.get_raw_file_path tries, in this order
RAW_EXTENSIONS == <<".pdf", ".jpg", ".jpeg", ".png", ".gif", ".webp">>

\* the for loop of S3FileStorage.get_raw_file_path: head_object is sent for
\* one extension after the other until a call returns
ProbeRaw(bucket, raw, document_id, fault) ==
    LET s3_key(i) == Key("raw", document_id, RAW_EXTENSIONS[i])
        hits == {i \in 1..Len(RAW_EXTENSIONS) : s3_key(i) \in raw /\ ~fault}
        last == IF hits = {} THEN Len(RAW_EXTENSIONS) ELSE Min(hits)
    IN  [value |-> IF hits = {} THEN NoKey ELSE s3_key(last),
         io |-> [i \in 1..last |-> IO("head_object", bucket, s3_key(i))]]

\* get_raw_file_path(document_id); the local glob has at most one match,
\* as uuid4 gives every upload its own id
get_raw_file_path(b, bucket, raw, document_id, fault) ==
    LET v == _validate_document_id(document_id)
        matches == {k \in raw : k.id = v.value}
        probe == ProbeRaw(bucket, raw, v.value, fault)
    IN  IF v.error # OK
        THEN [error |-> v.error, value |-> NoKey, io |-> <<>>]
        ELSE IF b = "s3"
        THEN [error |-> OK, value |-> probe.value, io |-> probe.io]
        ELSE [error |-> OK,
              value |-> IF matches = {} THEN NoKey
                        ELSE CHOOSE k \in matches : TRUE,
              io |-> <<IO("glob", bucket, Key("raw", v.value, ".*"))>>]

\* get_raw_file_content(document_id); the bytes are not modelled, the value
\* is the key they were read from
get_raw_file_content(b, bucket, raw, document_id, fault, fault_get) ==
    LET p == get_raw_file_path(b, bucket, raw, document_id, fault)
        read == IF b = "s3" THEN IO("get_object", bucket, p.value)
                ELSE IO("read_bytes", bucket, p.value)
    IN  IF p.error # OK THEN p
        ELSE IF p.value = NoKey
        THEN [error |-> HTTPException(404, "Document not found"),
              value |-> NoKey, io |-> p.io]
        ELSE IF b = "s3" /\ fault_get
        THEN [error |-> HTTPException(500, "Failed to retrieve file from S3"),
              value |-> NoKey, io |-> p.io \o <<read>>]
        ELSE [error |-> OK, value |-> p.value, io |-> p.io \o <<read>>]

\* load_ocr_text answering a missing text with the empty string
load_ocr_text_missing_as_empty(b, bucket, ocr, document_id, fault) ==
    LET v == _validate_document_id(document_id)
        key == Key("ocr", v.value, ".txt")
    IN  IF v.error # OK
        THEN [error |-> v.error, value |-> None, io |-> <<>>]
        ELSE [error |-> OK,
              value |-> IF v.value \in DOMAIN ocr THEN ocr[v.value] ELSE <<>>,
              io |-> <<IO("read_text", bucket, key)>>]

\* load_ocr_text(document_id)
load_ocr_text(b, bucket, ocr, document_id, fault) ==
    LET v == _validate_document_id(document_id)
        key == Key("ocr", v.value, ".txt")
    IN  IF v.error # OK
        THEN [error |-> v.error, value |-> None, io |-> <<>>]
        ELSE IF b = "s3"
        THEN IF fault
             THEN [error |-> HTTPException(500,
                                 "Failed to load OCR text from S3"),
                   value |-> None, io |-> <<IO("get_object", bucket, key)>>]
             ELSE IF v.value \notin DOMAIN ocr
             THEN [error |-> HTTPException(404, OCR_TEXT_NOT_FOUND),
                   value |-> None, io |-> <<IO("get_object", bucket, key)>>]
             ELSE [error |-> OK, value |-> ocr[v.value],
                   io |-> <<IO("get_object", bucket, key)>>]
        ELSE IF v.value \notin DOMAIN ocr
             THEN [error |-> HTTPException(404, OCR_TEXT_NOT_FOUND),
                   value |-> None, io |-> <<IO("exists", bucket, key)>>]
             ELSE [error |-> OK, value |-> ocr[v.value],
                   io |-> <<IO("exists", bucket, key),
                            IO("read_text", bucket, key)>>]

\* save_ocr_text(document_id, text)
save_ocr_text(b, bucket, ocr, document_id, t, fault) ==
    LET v == _validate_document_id(document_id)
        key == Key("ocr", v.value, ".txt")
        write == IF b = "s3" THEN IO("put_object", bucket, key)
                 ELSE IO("write_text", bucket, key)
    IN  IF v.error # OK
        THEN [error |-> v.error, value |-> NoKey, ocr |-> ocr, io |-> <<>>]
        ELSE IF b = "s3" /\ fault
        THEN [error |-> HTTPException(500, "Failed to save OCR text to S3"),
              value |-> NoKey, ocr |-> ocr, io |-> <<write>>]
        ELSE [error |-> OK, value |-> key, ocr |-> Put(ocr, v.value, t),
              io |-> <<write>>]

\* save_sentences(document_id, data)
save_sentences(b, bucket, records, document_id, data, fault) ==
    LET v == _validate_document_id(document_id)
        key == Key("sentences", v.value, ".json")
        write == IF b = "s3" THEN IO("put_object", bucket, key)
                 ELSE IO("write_text", bucket, key)
    IN  IF v.error # OK
        THEN [error |-> v.error, value |-> NoKey, records |-> records,
              io |-> <<>>]
        ELSE IF b = "s3" /\ fault
        THEN [error |-> HTTPException(500, "Failed to save sentences to S3"),
              value |-> NoKey, records |-> records, io |-> <<write>>]
        ELSE [error |-> OK, value |-> key,
              records |-> Put(records, v.value, data), io |-> <<write>>]

\* the value None where a sentence payload is expected
NoPayload == [document_id |-> "", sentences |-> <<>>, sentence_count |-> -1]

\* load_sentences(document_id)
load_sentences(b, bucket, records, document_id, fault) ==
    LET v == _validate_document_id(document_id)
        key == Key("sentences", v.value, ".json")
    IN  IF v.error # OK
        THEN [error |-> v.error, value |-> NoPayload, io |-> <<>>]
        ELSE IF b = "s3"
        THEN IF fault
             THEN [error |-> HTTPException(500,
                                 "Failed to load sentences from S3"),
                   value |-> NoPayload,
                   io |-> <<IO("get_object", bucket, key)>>]
             ELSE IF v.value \notin DOMAIN records
             THEN [error |-> HTTPException(404, SENTENCES_NOT_FOUND),
                   value |-> NoPayload,
                   io |-> <<IO("get_object", bucket, key)>>]
             ELSE [error |-> OK, value |-> records[v.value],
                   io |-> <<IO("get_object", bucket, key)>>]
        ELSE IF v.value \notin DOMAIN records
             THEN [error |-> HTTPException(404, SENTENCES_NOT_FOUND),
                   value |-> NoPayload, io |-> <<IO("exists", bucket, key)>>]
             ELSE [error |-> OK, value |-> records[v.value],
                   io |-> <<IO("exists", bucket, key),
                            IO("read_text", bucket, key)>>]

-----------------------------------------------------------------------------
(* The endpoints of main.py                                                 *)
(* f tells for each stage of the endpoint whether its S3 client calls fail  *)

\* the value None where a response body is expected
NoBody == [document_id |-> ""]

\* the payload generate_sentences builds
Payload(document_id, sentences) ==
    [document_id |-> document_id, sentences |-> sentences,
     sentence_count |-> Len(sentences)]

\* file_storage of main.py with STORAGE_BACKEND=s3: an empty S3_BUCKET_NAME
\* is refused by main.py itself, before S3FileStorage() is called
main_S3FileStorage(bucket, head) ==
    IF bucket = ""
    THEN [error |->
              "S3 bucket name is required when using S3 storage backend",
          io |-> <<>>]
    ELSE S3FileStorage_init(bucket, head)

\* upload_document(file)
upload_document(b, bucket, raw, file, document_id, how, left) ==
    LET r == save_uploaded_file(b, bucket, raw, file, document_id, how,
                                left)
    IN  [error |-> r.error,
         body |-> IF r.error = OK THEN [document_id |-> r.value] ELSE NoBody,
         raw |-> r.raw, io |-> r.io]

\* run_ocr(document_id); ocr_out is what ocr_processor does with the file
run_ocr(b, bucket, raw, ocr, document_id, ocr_out, f) ==
    LET p == get_raw_file_path(b, bucket, raw, document_id, f.find)
        c == get_raw_file_content(b, bucket, raw, document_id, f.find_again,
                                  f.read)
        fetched == IF b = "s3" THEN p.io \o c.io ELSE p.io
        s == save_ocr_text(b, bucket, ocr, document_id, ocr_out.text, f.save)
        Failed(error, calls_made) ==
            [error |-> error, body |-> NoBody, ocr |-> ocr,
             io |-> calls_made, saved |-> ""]
    IN  IF p.error # OK THEN Failed(p.error, p.io)
        ELSE IF p.value = NoKey
        THEN Failed(HTTPException(404, DOCUMENT_NOT_FOUND), p.io)
        ELSE IF b = "s3" /\ c.error # OK THEN Failed(c.error, fetched)
        ELSE IF ocr_out.error # OK THEN Failed(ocr_out.error, fetched)
        ELSE IF s.error # OK THEN Failed(s.error, fetched \o s.io)
        ELSE [error |-> OK,
              body |-> [document_id |-> document_id, text |-> ocr_out.text],
              ocr |-> s.ocr, io |-> fetched \o s.io, saved |-> s.value.id]

\* generate_sentences(document_id); o and raw are what Pecab.spacing and
\* split_sentences do inside text_processor.split_into_sentences
generate_sentences(b, bucket, ocr, records, sp, document_id, o, raw, f) ==
    LET l == load_ocr_text(b, bucket, ocr, document_id, f.read)
    IN  IF l.error # OK
        THEN [error |-> l.error, body |-> NoBody, records |-> records,
              io |-> l.io]
        ELSE LET r == split_into_sentences(sp, l.value, o, raw)
                 payload == Payload(document_id, r.value)
                 s == save_sentences(b, bucket, records, document_id,
                                     payload, f.save)
             IN  IF s.error # OK
                 THEN [error |-> s.error, body |-> NoBody,
                       records |-> records, io |-> l.io \o s.io]
                 ELSE [error |-> OK, body |-> payload, records |-> s.records,
                       io |-> l.io \o s.io]

\* extract_vocabulary(document_id, min_length) of main.py
extract_vocabulary_endpoint(b, bucket, ocr, sp, document_id, m, o, f) ==
    LET l == load_ocr_text(b, bucket, ocr, document_id, f.read)
        vocabulary == extract_vocabulary(sp, l.value, o, m).value
    IN  IF l.error # OK
        THEN [error |-> l.error, body |-> NoBody, io |-> l.io]
        ELSE [error |-> OK,
              body |-> [document_id |-> document_id,
                        vocabulary |-> vocabulary,
                        vocabulary_count |-> Len(vocabulary),
                        min_length |-> m],
              io |-> l.io]

-----------------------------------------------------------------------------
(* Bounds and the environment                                               *)

MaxTextLen == 3       \* longest text given to the public methods in Spec
MaxSentenceLen == 4   \* longest text given to split_into_sentences
MaxEscapedLen == 4    \* longest escaped text given to split_into_sentences
MaxVocabLen == 4      \* longest text given to extract_vocabulary
MaxQuoteLen == 5      \* longest sentence given to _split_quoted_segments
MaxQuotePairsLen == 7 \* longest sentence of quotes and letters only
MaxPadLen == 1        \* longest whitespace run Pecab.spacing inserts
MaxSentences == 2     \* most sentences kss.split_sentences returns
MaxMinLength == 3     \* largest min_length argument
MaxOrderLen == 6      \* longest text cut into several surviving sentences
MaxQuotedOrderLen == 9 \* longest text put after a first sentence
MaxCalls == 3         \* most storage or endpoint calls in one behaviour
MaxProcessors == 2    \* most Pecab() constructions in one process
MaxSegmentLen == 5    \* longest segment given to _normalize_sentence
MaxDigitRunLen == 7   \* longest segment of digits, letters and spaces

\* all str over chars of length at most n
Strings(chars, n) == UNION {[1..k -> chars] : k \in 0..n}

InsertAt(t, i, w) == SubSeq(t, 1, i) \o w \o From(t, i + 1)

\* Pecab.spacing(t) either raises or returns t with whitespace inserted
SpacingOutcomes(t) ==
    {[called |-> TRUE, raises |-> TRUE, value |-> <<>>]}
    \cup {[called |-> TRUE, raises |-> FALSE, value |-> InsertAt(t, i, w)] :
             i \in 0..Len(t), w \in Strings({SPACE, TAB}, MaxPadLen)}

\* what the call of self._spacer.spacing can do inside clean_text(t)
Outcomes(sp, t) ==
    IF sp = "None" THEN {NotCalled} ELSE SpacingOutcomes(pre_spacing(t))

\* the pieces of t cut after the positions in cuts
RECURSIVE Pieces(_, _, _)
Pieces(t, cuts, from) ==
    IF cuts = {} THEN <<From(t, from)>>
    ELSE LET c == Min(cuts)
         IN  <<SubSeq(t, from, c)>> \o Pieces(t, cuts \ {c}, c + 1)

\* the sets of at most k positions among 1..n after which a text is cut
RECURSIVE CutSets(_, _)
CutSets(n, k) ==
    IF k = 0 THEN {{}}
    ELSE LET fewer == CutSets(n, k - 1)
         IN  fewer \cup {c \cup {x} : c \in fewer, x \in 1..n}

\* kss.split_sentences(t): the sentences cover t in order; no sentence, or
\* t cut into at most MaxSentences non-empty pieces
split_sentences(t) ==
    {<<>>} \cup {Pieces(t, cuts, 1) :
                    cuts \in CutSets(Len(t) - 1, MaxSentences - 1)}

\* what split_sentences can return inside split_into_sentences, given what
\* clean_text did: it is called on a non-empty normalized text only
ProviderReturns(c) ==
    IF c.raised \/ c.value = <<>> THEN {<<>>} ELSE split_sentences(c.value)

MinLengths == (0 - 1)..MaxMinLength

\* the uploads callers send: an image with no file name, with a name
\* without a suffix and with two suffixes, a PDF under two names, an image
\* of another type, and two files that are refused: one without a content
\* type and one of a type that is neither image nor PDF
UploadFiles ==
    [filename : {"", "scan", "scan.png", "scan.bmp"},
     content_type : {"image/png"}]
    \cup [filename : {"scan", "scan.png"}, content_type : {PDF_CONTENT_TYPE}]
    \cup [filename : {"scan.bmp"}, content_type : {"image/bmp"}]
    \cup [filename : {"scan.png"}, content_type : {"", "text/plain"}]

\* the texts OCR produces and callers store
OcrTexts == {<<>>, <<HANGUL_NA, SPACE, HANGUL_GA, HANGUL_GA>>}

\* the error codes of the ClientError head_bucket raises
ClientErrorCodes == {"404", "403", "500", ""}

\* what head_bucket does: it returns, raises a ClientError with one of
\* these codes, or raises an exception that is no ClientError
HeadBucketOutcomes == {"ok", "BotoCoreError"} \cup ClientErrorCodes

BucketNames == {"", "test-bucket"}

\* whether the S3 client calls of one operation can fail; pathlib calls on
\* the local disk are taken to succeed
Faults(b) == IF b = "s3" THEN BOOLEAN ELSE {FALSE}

\* the ids uuid.uuid4() can return: those no stored object carries
NewIds ==
    Uuids \ ({k.id : k \in raw_files} \cup {u.document_id : u \in uploads}
              \cup DOMAIN ocr_texts \cup DOMAIN sentence_records)

\* which stages of an endpoint meet a failing S3 client
Stages == {"find", "find_again", "read", "save"}

\* an endpoint ends at the first stage that fails, so at most one of the
\* stages it has is chosen to fail
StageFaults(b, stages) ==
    {f \in [Stages -> Faults(b)] :
        /\ \A x \in Stages : f[x] => x \in stages
        /\ \A x, y \in Stages : f[x] /\ f[y] => x = y}

PDF_SUFFIX == ".pdf"

\* an exception of the OCR reader that neither ocr_processor nor run_ocr
\* catches: the request ends with the server's answer to an unhandled error
UnhandledException == HTTPException(500, "Internal Server Error")

\* how ocr_processor fails on the raw file key: a PDF goes through
\* _convert_pdf_to_images and _run_ocr without a try around the reader, an
\* image is read inside a try by extract_text_from_bytes (S3) and without
\* one by _extract_from_path (local disk); the extensions of the model are
\* in lower case, as file_extension.lower() makes them
OcrFailures(b, key) ==
    IF key.ext = PDF_SUFFIX
    THEN {HTTPException(500, "pdf2image is required for PDF OCR. Install poppler and pdf2image."),
          HTTPException(500, "Failed to convert PDF to images"),
          HTTPException(400, "No pages detected in PDF."),
          UnhandledException}
    ELSE IF b = "s3"
    THEN {HTTPException(400, "Failed to process image")}
    ELSE {UnhandledException}

\* what ocr_processor does with the raw file key: a stripped text or one of
\* its failures; it is not called when no raw file was found
OcrOutcomes(b, key) ==
    IF key = NoKey
    THEN {[error |-> OK, text |-> <<>>]}
    ELSE {[error |-> OK, text |-> t] : t \in OcrTexts}
         \cup {[error |-> e, text |-> <<>>] : e \in OcrFailures(b, key)}

Request(name, document_id, arg, env) ==
    [name |-> name, document_id |-> document_id, arg |-> arg, env |-> env]

\* before main.py builds file_storage; the store holds no document
InitDocs ==
    /\ file_storage = "none"
    /\ bucket_name = ""
    /\ init_error = ""
    /\ raw_files = {}
    /\ uploads = {}
    /\ ocr_texts = <<>>
    /\ sentence_records = <<>>
    /\ saved_ocr = {}
    /\ request = Request("none", "", "", FALSE)
    /\ response = OK
    /\ returned = <<>>
    /\ io = <<>>
    /\ calls = 0

\* the threads that call the shared text_processor of main.py
Threads == {"t1", "t2"}

\* the call of a thread: where it is, its method and argument, its local
\* variable normalized, what the collaborators did for it, its result
ThreadCall(at, name, arg) ==
    [pc |-> at, op |-> name, arg |-> arg, normalized |-> <<>>,
     outcome |-> NotCalled, raw |-> <<>>, result |-> <<>>]

\* no thread calls the processor
NoThreads == [t \in Threads |-> ThreadCall("idle", "none", <<>>)]

\* the state of one caller before its call
InitCall(texts, spacers) ==
    /\ pc = "idle"
    /\ op = "none"
    /\ spacer \in spacers
    /\ text \in texts
    /\ min_length = 1
    /\ outcome = NotCalled
    /\ raw_sentences = <<>>
    /\ kss_calls = 0
    /\ normalized = <<>>
    /\ result = <<>>
    /\ raised = FALSE
    /\ pecab_inits = (IF spacer = "Pecab" THEN 1 ELSE 0)
    /\ InitDocs

\* _init_spacer returned Pecab() or, when pecab failed to load, None
InitWith(texts, spacers) ==
    /\ threads = NoThreads
    /\ InitCall(texts, spacers)

-----------------------------------------------------------------------------
(* The calls                                                                *)

CleanText ==
    /\ pc = "idle"
    /\ \E o \in Outcomes(spacer, text) :
          LET c == clean_text(spacer, text, o)
          IN  /\ outcome' = o
              /\ raised' = c.raised
              /\ normalized' = c.value
              /\ result' = c.value
    /\ pc' = "done"
    /\ op' = "clean_text"
    /\ UNCHANGED <<spacer, text, min_length, raw_sentences, kss_calls>>
    /\ UNCHANGED <<threads, pecab_inits, docVars>>

SplitIntoSentences ==
    /\ pc = "idle"
    /\ \E o \in Outcomes(spacer, text) :
          \E raw \in ProviderReturns(clean_text(spacer, text, o)) :
              \E r \in {split_into_sentences(spacer, text, o, raw)} :
                  /\ outcome' = o
                  /\ raised' = r.raised
                  /\ normalized' = r.normalized
                  /\ raw_sentences' = raw
                  /\ kss_calls' = IF r.invoked THEN kss_calls + 1 ELSE kss_calls
                  /\ result' = r.value
    /\ pc' = "done"
    /\ op' = "split_into_sentences"
    /\ UNCHANGED <<spacer, text, min_length>>
    /\ UNCHANGED <<threads, pecab_inits, docVars>>

ExtractVocabulary ==
    /\ pc = "idle"
    /\ \E o \in Outcomes(spacer, text), m \in MinLengths :
          LET r == extract_vocabulary(spacer, text, o, m)
          IN  /\ outcome' = o
              /\ min_length' = m
              /\ raised' = r.raised
              /\ normalized' = r.normalized
              /\ result' = r.value
    /\ pc' = "done"
    /\ op' = "extract_vocabulary"
    /\ UNCHANGED <<spacer, text, raw_sentences, kss_calls>>
    /\ UNCHANGED <<threads, pecab_inits, docVars>>

SplitQuotedSegments ==
    /\ pc = "idle"
    /\ result' = _split_quoted_segments(text)
    /\ pc' = "done"
    /\ op' = "_split_quoted_segments"
    /\ UNCHANGED <<spacer, text, min_length, outcome, raw_sentences,
                   kss_calls, normalized, raised>>
    /\ UNCHANGED <<threads, pecab_inits, docVars>>

\* one call of the sentence filter on the segment text
NormalizeSentence ==
    /\ pc = "idle"
    /\ result' = _normalize_sentence(text)
    /\ pc' = "done"
    /\ op' = "_normalize_sentence"
    /\ UNCHANGED <<spacer, text, min_length, outcome, raw_sentences,
                   kss_calls, normalized, raised>>
    /\ UNCHANGED <<threads, pecab_inits, docVars>>

\* the texts of the calls made in a process that builds several processors
ProcessTexts == {<<>>, <<HANGUL_GA>>, <<SPACE, HANGUL_GA>>}

\* TextProcessor(): __init__ sets self._spacer to what _init_spacer returns,
\* a new Pecab() or, when pecab fails to load, None
Construct ==
    /\ pecab_inits < MaxProcessors
    /\ \E made \in {"None", "Pecab"} :
          /\ spacer' = made
          /\ pecab_inits' = IF made = "Pecab" THEN pecab_inits + 1
                            ELSE pecab_inits
    /\ UNCHANGED <<textVars, docVars>>

\* the caller goes on to its next call of the processor
NewCall ==
    /\ pc = "done"
    /\ pc' = "idle"
    /\ op' = "none"
    /\ text' \in ProcessTexts
    /\ min_length' = 1
    /\ outcome' = NotCalled
    /\ raw_sentences' = <<>>
    /\ kss_calls' = 0
    /\ normalized' = <<>>
    /\ result' = <<>>
    /\ raised' = FALSE
    /\ UNCHANGED <<threads, spacer, pecab_inits, docVars>>

\* the texts concurrent callers send
ThreadTexts == {<<HANGUL_GA, HANGUL_NA>>, <<TAB>>}

Methods == {"clean_text", "split_into_sentences", "extract_vocabulary"}

\* thread t runs clean_text up to the call of _maybe_apply_spacing
ThreadNormalize(t) ==
    /\ threads[t].pc = "idle"
    /\ threads' = [threads EXCEPT
                      ![t].pc = "normalized",
                      ![t].normalized = pre_spacing(threads[t].arg)]
    /\ UNCHANGED <<pc, op, text, min_length, outcome, raw_sentences,
                   kss_calls, normalized, result, raised>>
    /\ UNCHANGED <<spacer, pecab_inits, docVars>>

\* thread t runs _maybe_apply_spacing, which reads self._spacer
ThreadApplySpacing(t) ==
    /\ threads[t].pc = "normalized"
    /\ \E o \in (IF spacer = "None" THEN {NotCalled}
                  ELSE SpacingOutcomes(threads[t].normalized)) :
          /\ threads' = [threads EXCEPT
                            ![t].pc = "spaced",
                            ![t].outcome = o,
                            ![t].normalized =
                                _maybe_apply_spacing(spacer,
                                    threads[t].normalized, o).value]
          /\ spacer' = spacer_after(spacer, o)
    /\ UNCHANGED <<pc, op, text, min_length, outcome, raw_sentences,
                   kss_calls, normalized, result, raised>>
    /\ UNCHANGED <<pecab_inits, docVars>>

\* thread t finishes clean_text and the rest of its method
ThreadFinish(t) ==
    /\ threads[t].pc = "spaced"
    /\ LET n == post_spacing(threads[t].normalized)
       IN  \E raw \in (IF threads[t].op = "split_into_sentences" /\ n # <<>>
                       THEN split_sentences(n) ELSE {<<>>}) :
              threads' = [threads EXCEPT
                  ![t].pc = "done",
                  ![t].normalized = n,
                  ![t].raw = raw,
                  ![t].result =
                      CASE threads[t].op = "clean_text" -> n
                        [] threads[t].op = "split_into_sentences" ->
                               sentences_of(n, raw)
                        [] OTHER -> vocabulary_of(n, 1)]
    /\ UNCHANGED <<pc, op, text, min_length, outcome, raw_sentences,
                   kss_calls, normalized, result, raised>>
    /\ UNCHANGED <<spacer, pecab_inits, docVars>>

\* LocalFileStorage(base_dir): ensure_exists makes the three directories
ConstructLocal ==
    /\ file_storage = "none"
    /\ file_storage' = "local"
    /\ init_error' = ""
    /\ request' = Request("LocalFileStorage", "", "", FALSE)
    /\ response' = OK
    /\ returned' = <<>>
    /\ io' = <<IO("mkdir", "", Key("raw", "", "")),
               IO("mkdir", "", Key("ocr", "", "")),
               IO("mkdir", "", Key("sentences", "", ""))>>
    /\ UNCHANGED <<bucket_name, raw_files, uploads, ocr_texts, sentence_records,
                   saved_ocr, calls>>
    /\ UNCHANGED <<textVars, spacer, pecab_inits>>

\* S3FileStorage(bucket_name): the object exists only if __init__ returned
ConstructS3 ==
    /\ file_storage = "none"
    /\ \E bucket \in BucketNames, head \in HeadBucketOutcomes :
          LET r == S3FileStorage_init(bucket, head)
          IN  /\ init_error' = r.error
              /\ io' = r.io
              /\ file_storage' = IF r.error = "" THEN "s3" ELSE "none"
              /\ bucket_name' = IF r.error = "" THEN bucket ELSE ""
              /\ request' = Request("S3FileStorage", "", bucket, head)
    /\ response' = OK
    /\ returned' = <<>>
    /\ UNCHANGED <<raw_files, uploads, ocr_texts, sentence_records,
                   saved_ocr, calls>>
    /\ UNCHANGED <<textVars, spacer, pecab_inits>>

\* the import of main.py with STORAGE_BACKEND=s3: file_storage exists only
\* if neither main.py nor S3FileStorage() raised
ImportMainS3 ==
    /\ file_storage = "none"
    /\ \E bucket \in BucketNames, head \in HeadBucketOutcomes :
          LET r == main_S3FileStorage(bucket, head)
          IN  /\ init_error' = r.error
              /\ io' = r.io
              /\ file_storage' = IF r.error = "" THEN "s3" ELSE "none"
              /\ bucket_name' = IF r.error = "" THEN bucket ELSE ""
              /\ request' = Request("S3FileStorage", "", bucket, head)
    /\ response' = OK
    /\ returned' = <<>>
    /\ UNCHANGED <<raw_files, uploads, ocr_texts, sentence_records,
                   saved_ocr, calls>>
    /\ UNCHANGED <<textVars, spacer, pecab_inits>>

\* a storage operation can be called: there is a store and calls are left
CanCall ==
    /\ file_storage # "none"
    /\ calls + Cardinality(uploads) < MaxCalls

\* a save_uploaded_file call that has drawn its id and waits in
\* await file.read(); name tells who awaits it
Upload(name, file, document_id) ==
    [name |-> name, file |-> file, document_id |-> document_id]

\* save_uploaded_file(file) up to await file.read(): a file that is refused
\* ends the call, any other leaves it waiting with its id drawn
SaveUploadedFile ==
    /\ CanCall
    /\ \E file \in UploadFiles :
          \E e \in {upload_extension(file)} :
              IF e.error # OK
              THEN /\ request' = Request("save_uploaded_file", "", file,
                                         "refused")
                   /\ response' = e.error
                   /\ returned' = ""
                   /\ io' = <<>>
                   /\ calls' = calls + 1
                   /\ UNCHANGED uploads
              ELSE /\ \E document_id \in NewIds :
                         uploads' = uploads \cup
                             {Upload("save_uploaded_file", file, document_id)}
                   /\ UNCHANGED <<request, response, returned, io, calls>>
    /\ UNCHANGED <<file_storage, bucket_name, init_error, raw_files,
                   ocr_texts, sentence_records, saved_ocr>>
    /\ UNCHANGED <<textVars, spacer, pecab_inits>>

\* save_uploaded_file(file) from the return of file.read() to its end
SaveUploadedFileResumed ==
    /\ \E u \in uploads, how \in SaveOutcomes(file_storage) :
          /\ u.name = "save_uploaded_file"
          /\ \E left \in LeftBehind(how) :
             \E r \in {save_uploaded_file(file_storage, bucket_name,
                           raw_files, u.file, u.document_id, how, left)} :
                /\ request' = Request("save_uploaded_file", "", u.file, how)
                /\ response' = r.error
                /\ returned' = r.value
                /\ raw_files' = r.raw
                /\ io' = r.io
          /\ uploads' = uploads \ {u}
    /\ calls' = calls + 1
    /\ UNCHANGED <<file_storage, bucket_name, init_error, ocr_texts,
                   sentence_records, saved_ocr>>
    /\ UNCHANGED <<textVars, spacer, pecab_inits>>

GetRawFilePath ==
    /\ CanCall
    /\ \E document_id \in DocumentIds, fault \in Faults(file_storage) :
          LET r == get_raw_file_path(file_storage, bucket_name, raw_files,
                                     document_id, fault)
          IN  /\ request' = Request("get_raw_file_path", document_id, "",
                                    fault)
              /\ response' = r.error
              /\ returned' = r.value
              /\ io' = r.io
    /\ calls' = calls + 1
    /\ UNCHANGED <<file_storage, bucket_name, init_error, raw_files, uploads,
                   ocr_texts, sentence_records, saved_ocr>>
    /\ UNCHANGED <<textVars, spacer, pecab_inits>>

\* get_raw_file_content(document_id): it looks the raw file up and reads it
GetRawFileContent ==
    /\ CanCall
    /\ \E document_id \in DocumentIds,
          f \in StageFaults(file_storage, {"find", "read"}) :
          \E r \in {get_raw_file_content(file_storage, bucket_name,
                        raw_files, document_id, f.find, f.read)} :
              /\ request' = Request("get_raw_file_content", document_id, "",
                                    f)
              /\ response' = r.error
              /\ returned' = r.value
              /\ io' = r.io
    /\ calls' = calls + 1
    /\ UNCHANGED <<file_storage, bucket_name, init_error, raw_files, uploads,
                   ocr_texts, sentence_records, saved_ocr>>
    /\ UNCHANGED <<textVars, spacer, pecab_inits>>

LoadOcrText ==
    /\ CanCall
    /\ \E document_id \in DocumentIds, fault \in Faults(file_storage) :
          LET r == load_ocr_text(file_storage, bucket_name, ocr_texts,
                                 document_id, fault)
          IN  /\ request' = Request("load_ocr_text", document_id, "", fault)
              /\ response' = r.error
              /\ returned' = r.value
              /\ io' = r.io
    /\ calls' = calls + 1
    /\ UNCHANGED <<file_storage, bucket_name, init_error, raw_files, uploads,
                   ocr_texts, sentence_records, saved_ocr>>
    /\ UNCHANGED <<textVars, spacer, pecab_inits>>

SaveOcrText ==
    /\ CanCall
    /\ \E document_id \in DocumentIds, t \in OcrTexts,
          fault \in Faults(file_storage) :
          LET r == save_ocr_text(file_storage, bucket_name, ocr_texts,
                                 document_id, t, fault)
          IN  /\ request' = Request("save_ocr_text", document_id, t, fault)
              /\ response' = r.error
              /\ returned' = r.value
              /\ ocr_texts' = r.ocr
              /\ saved_ocr' = IF r.error = OK
                              THEN saved_ocr \cup {r.value.id}
                              ELSE saved_ocr
              /\ io' = r.io
    /\ calls' = calls + 1
    /\ UNCHANGED <<file_storage, bucket_name, init_error, raw_files, uploads,
                   sentence_records>>
    /\ UNCHANGED <<textVars, spacer, pecab_inits>>

SaveSentences ==
    /\ CanCall
    /\ \E document_id \in DocumentIds, fault \in Faults(file_storage) :
          LET data == Payload(document_id, <<<<HANGUL_GA, HANGUL_GA,
                                               HANGUL_GA>>>>)
              r == save_sentences(file_storage, bucket_name,
                                  sentence_records, document_id, data, fault)
          IN  /\ request' = Request("save_sentences", document_id, data,
                                    fault)
              /\ response' = r.error
              /\ returned' = r.value
              /\ sentence_records' = r.records
              /\ io' = r.io
    /\ calls' = calls + 1
    /\ UNCHANGED <<file_storage, bucket_name, init_error, raw_files, uploads,
                   ocr_texts, saved_ocr>>
    /\ UNCHANGED <<textVars, spacer, pecab_inits>>

LoadSentences ==
    /\ CanCall
    /\ \E document_id \in DocumentIds, fault \in Faults(file_storage) :
          LET r == load_sentences(file_storage, bucket_name,
                                  sentence_records, document_id, fault)
          IN  /\ request' = Request("load_sentences", document_id, "", fault)
              /\ response' = r.error
              /\ returned' = r.value
              /\ io' = r.io
    /\ calls' = calls + 1
    /\ UNCHANGED <<file_storage, bucket_name, init_error, raw_files, uploads,
                   ocr_texts, sentence_records, saved_ocr>>
    /\ UNCHANGED <<textVars, spacer, pecab_inits>>

\* upload_document(file) up to the await file.read() inside
\* save_uploaded_file
PostUpload ==
    /\ CanCall
    /\ \E file \in UploadFiles :
          \E e \in {upload_extension(file)} :
              IF e.error # OK
              THEN /\ request' = Request("upload", "", file, "refused")
                   /\ response' = e.error
                   /\ returned' = NoBody
                   /\ io' = <<>>
                   /\ calls' = calls + 1
                   /\ UNCHANGED uploads
              ELSE /\ \E document_id \in NewIds :
                         uploads' = uploads \cup
                             {Upload("upload", file, document_id)}
                   /\ UNCHANGED <<request, response, returned, io, calls>>
    /\ UNCHANGED <<file_storage, bucket_name, init_error, raw_files,
                   ocr_texts, sentence_records, saved_ocr>>
    /\ UNCHANGED <<textVars, spacer, pecab_inits>>

\* upload_document(file) from the return of file.read() to the response
PostUploadResumed ==
    /\ \E u \in uploads, how \in SaveOutcomes(file_storage) :
          /\ u.name = "upload"
          /\ \E left \in LeftBehind(how) :
             \E r \in {upload_document(file_storage, bucket_name, raw_files,
                                       u.file, u.document_id, how, left)} :
                /\ request' = Request("upload", "", u.file, how)
                /\ response' = r.error
                /\ returned' = r.body
                /\ raw_files' = r.raw
                /\ io' = r.io
          /\ uploads' = uploads \ {u}
    /\ calls' = calls + 1
    /\ UNCHANGED <<file_storage, bucket_name, init_error, ocr_texts,
                   sentence_records, saved_ocr>>
    /\ UNCHANGED <<textVars, spacer, pecab_inits>>

PostOcr ==
    /\ CanCall
    /\ \E document_id \in DocumentIds,
          f \in StageFaults(file_storage, Stages) :
          \E p \in {get_raw_file_path(file_storage, bucket_name, raw_files,
                                       document_id, f.find)} :
              \E ocr_out \in OcrOutcomes(file_storage, p.value) :
                  \E r \in {run_ocr(file_storage, bucket_name, raw_files,
                                   ocr_texts, document_id, ocr_out, f)} :
                      /\ request' = Request("ocr", document_id, "", f)
                      /\ response' = r.error
                      /\ returned' = r.body
                      /\ ocr_texts' = r.ocr
                      /\ saved_ocr' = IF r.error = OK
                                      THEN saved_ocr \cup {r.saved}
                                      ELSE saved_ocr
                      /\ io' = r.io
    /\ calls' = calls + 1
    /\ UNCHANGED <<file_storage, bucket_name, init_error, raw_files, uploads,
                   sentence_records>>
    /\ UNCHANGED <<textVars, spacer, pecab_inits>>

\* the text an endpoint hands to text_processor, "" when loading failed
Loaded(document_id, f) ==
    LET l == load_ocr_text(file_storage, bucket_name, ocr_texts,
                           document_id, f.read)
    IN  IF l.error = OK THEN l.value ELSE <<>>

PostSentences ==
    /\ CanCall
    /\ \E document_id \in DocumentIds,
          f \in StageFaults(file_storage, {"read", "save"}) :
          \E t \in {Loaded(document_id, f)} :
              \E o \in Outcomes(spacer, t) :
                  \E raw \in ProviderReturns(clean_text(spacer, t, o)) :
                      \E r \in {generate_sentences(file_storage, bucket_name,
                                     ocr_texts, sentence_records, spacer,
                                     document_id, o, raw, f)} :
                          /\ request' = Request("sentences", document_id, "", f)
                          /\ response' = r.error
                          /\ returned' = r.body
                          /\ sentence_records' = r.records
                          /\ io' = r.io
    /\ calls' = calls + 1
    /\ UNCHANGED <<file_storage, bucket_name, init_error, raw_files, uploads,
                   ocr_texts, saved_ocr>>
    /\ UNCHANGED <<textVars, spacer, pecab_inits>>

PostVocabulary ==
    /\ CanCall
    /\ \E document_id \in DocumentIds, m \in MinLengths,
          f \in StageFaults(file_storage, {"read"}) :
          \E o \in Outcomes(spacer, Loaded(document_id, f)) :
              \E r \in {extract_vocabulary_endpoint(file_storage, bucket_name,
                           ocr_texts, spacer, document_id, m, o, f)} :
                  /\ request' = Request("vocabulary", document_id, m, f)
                  /\ response' = r.error
                  /\ returned' = r.body
                  /\ io' = r.io
    /\ calls' = calls + 1
    /\ UNCHANGED <<file_storage, bucket_name, init_error, raw_files, uploads,
                   ocr_texts, sentence_records, saved_ocr>>
    /\ UNCHANGED <<textVars, spacer, pecab_inits>>

-----------------------------------------------------------------------------
(* Specifications                                                           *)

\* the three public methods on None and on texts with escapes, whitespace
\* and Hangul
Init ==
    InitWith({None} \cup Strings({BACKSLASH, DQUOTE, LETTER_N, SPACE, TAB,
                                  HANGUL_GA}, MaxTextLen),
             {"None", "Pecab"})

Next == CleanText \/ SplitIntoSentences \/ ExtractVocabulary

Spec == Init /\ [][Next]_vars

\* a text after a stray page number and a word
PageNumbered(t) == <<DIGIT_ONE, SPACE, LETTER_A, SPACE>> \o t

\* split_into_sentences on texts with digits, letters, quotes and
\* punctuation, and on longer texts that start with a page number and a
\* word and go on with digit runs, which can exceed the four digits of
\* DIGIT_ORPHAN_PATTERN, in a process where pecab is not installed
InitSentences ==
    InitWith(Strings({PERIOD, DQUOTE, LETTER_A, DIGIT_ONE, SPACE},
                     MaxSentenceLen)
                 \cup {PageNumbered(t) :
                          t \in Strings({DIGIT_ONE, SPACE}, MaxDigitRunLen)},
             {"None"})

NextSentences == SplitIntoSentences

SpecSentences == InitSentences /\ [][NextSentences]_vars

\* extract_vocabulary on texts with two Hangul syllables
InitVocab ==
    InitWith(Strings({HANGUL_GA, HANGUL_NA, SPACE, LETTER_A}, MaxVocabLen),
             {"None", "Pecab"})

NextVocab == ExtractVocabulary

SpecVocab == InitVocab /\ [][NextVocab]_vars

\* split_into_sentences on texts with backslashes and double quotes
InitEscaped ==
    InitWith(Strings({BACKSLASH, DQUOTE, LETTER_A}, MaxEscapedLen),
             {"None", "Pecab"})

NextEscaped == SplitIntoSentences

SpecEscaped == InitEscaped /\ [][NextEscaped]_vars

\* _split_quoted_segments on sentences with both straight quotes, and on
\* longer sentences that can hold two quote pairs and a prefix
InitQuote ==
    InitWith(Strings({DQUOTE, SQUOTE, LETTER_A, SPACE, NEWLINE}, MaxQuoteLen)
                 \cup Strings({DQUOTE, SQUOTE, LETTER_A}, MaxQuotePairsLen),
             {"None", "Pecab"})

NextQuote == SplitQuotedSegments

SpecQuote == InitQuote /\ [][NextQuote]_vars

\* _normalize_sentence on segments with letters, digits, underscores,
\* boundary punctuation and two kinds of whitespace, and on longer segments
\* in which a digit run can exceed the four digits of DIGIT_ORPHAN_PATTERN
InitFilter ==
    InitWith(Strings({LETTER_A, DIGIT_ONE, UNDERSCORE, HYPHEN, SPACE, TAB},
                     MaxSegmentLen)
                 \cup Strings({LETTER_A, DIGIT_ONE, SPACE}, MaxDigitRunLen),
             {"None"})

NextFilter == NormalizeSentence

SpecFilter == InitFilter /\ [][NextFilter]_vars

\* a text after a first sentence of three letters
AfterSentence(t) == <<LETTER_A, LETTER_A, LETTER_A>> \o t

\* split_into_sentences on texts long enough for two surviving sentences,
\* and on longer texts in which a sentence that follows a first one can
\* have two surviving segments
InitOrder ==
    InitWith(Strings({LETTER_A, PERIOD, DQUOTE}, MaxOrderLen)
                 \cup {AfterSentence(t) :
                          t \in Strings({LETTER_A, DQUOTE},
                                        MaxQuotedOrderLen)},
             {"None"})

NextOrder == SplitIntoSentences

SpecOrder == InitOrder /\ [][NextOrder]_vars

\* the storage operations called directly, as the storage tests do, on a
\* store built by either constructor in a process without pecab
InitStorage == InitWith({<<>>}, {"None"})

NextStorage ==
    \/ ConstructLocal
    \/ ConstructS3
    \/ SaveUploadedFile
    \/ SaveUploadedFileResumed
    \/ GetRawFilePath
    \/ GetRawFileContent
    \/ LoadOcrText
    \/ SaveOcrText
    \/ SaveSentences
    \/ LoadSentences

SpecStorage == InitStorage /\ [][NextStorage]_vars

\* the endpoints of main.py on the store main.py built, in a process
\* without pecab
InitApi == InitWith({<<>>}, {"None"})

NextApi ==
    \/ ConstructLocal
    \/ ImportMainS3
    \/ PostUpload
    \/ PostUploadResumed
    \/ PostOcr
    \/ PostSentences
    \/ PostVocabulary

SpecApi == InitApi /\ [][NextApi]_vars

\* a process that constructs TextProcessor more than once, as the test
\* module does, and calls the methods of the newest one
InitProcess == InitWith(ProcessTexts, {"None", "Pecab"})

NextProcess ==
    \/ Construct
    \/ NewCall
    \/ CleanText
    \/ SplitIntoSentences
    \/ ExtractVocabulary

SpecProcess == InitProcess /\ [][NextProcess]_vars

\* two threads, each inside one call of the shared text_processor
InitThreads ==
    /\ InitCall({<<>>}, {"None", "Pecab"})
    /\ threads \in {[t \in Threads |-> ThreadCall("idle", name[t], arg[t])] :
                       name \in [Threads -> Methods],
                       arg \in [Threads -> ThreadTexts]}

NextThreads ==
    \E t \in Threads :
        \/ ThreadNormalize(t)
        \/ ThreadApplySpacing(t)
        \/ ThreadFinish(t)

SpecThreads == InitThreads /\ [][NextThreads]_vars

-----------------------------------------------------------------------------
(* Properties                                                               *)

Returned(name) == pc = "done" /\ op = name /\ ~raised

\* s contains a backslash immediately followed by a double quote
HasEscapedQuote(s) ==
    \E i \in 1..(Len(s) - 1) : s[i] = BACKSLASH /\ s[i + 1] = DQUOTE

\* C1: clean_text is idempotent when there is no spacing pass: cleaning the
\* text it returned gives that text again
C1_CleanTextIdempotent ==
    (Returned("clean_text") /\ spacer = "None")
        => clean_text("None", result, NotCalled).value = result

\* C2: the text clean_text returns contains no backslash immediately followed
\* by a double quote
C2_NoEscapedQuote ==
    Returned("clean_text") => ~HasEscapedQuote(result)

\* C3: whatever the spacing pass returned, the text clean_text returns has no
\* two consecutive whitespace characters, no whitespace character other than
\* the ASCII space, and no leading or trailing whitespace
C3_WhitespaceInvariant ==
    Returned("clean_text") =>
        /\ \A i \in 1..Len(result) : IsSpace(result[i]) => result[i] = SPACE
        /\ \A i \in 1..(Len(result) - 1) :
              ~(IsSpace(result[i]) /\ IsSpace(result[i + 1]))
        /\ Len(result) > 0 =>
              ~IsSpace(result[1]) /\ ~IsSpace(result[Len(result)])

\* the spacing pass returned a text that starts with a tab, and clean_text
\* returned a text with a space inside
C3_Witness ==
    /\ Returned("clean_text")
    /\ outcome.called /\ ~outcome.raises
    /\ Len(outcome.value) >= 1 /\ outcome.value[1] = TAB
    /\ \E i \in 1..Len(result) : result[i] = SPACE

\* C4: when there is no spacer or spacing() raises, the call raises nothing
\* and works on the text that escape repair, whitespace collapse and trim
\* alone give; this holds for all three public methods
C4_SpacingFailureRecovered ==
    (pc = "done" /\ (spacer = "None" \/ outcome.raises)) =>
        /\ ~raised
        /\ normalized = strip(pre_spacing(text), WHITESPACE)
        /\ op = "clean_text" => result = normalized

\* spacing() raised inside split_into_sentences, which returned a sentence
C4_Witness ==
    /\ pc = "done" /\ op = "split_into_sentences"
    /\ spacer = "Pecab" /\ outcome.raises
    /\ Len(result) >= 1

\* C5: every sentence split_into_sentences returns has at least 3 code points
C5_SentenceMinLength ==
    Returned("split_into_sentences") =>
        \A k \in 1..Len(result) : Len(result[k]) >= 3

\* the provider returned two sentences, one was dropped and the one returned
\* has exactly 3 code points
C5_Witness ==
    /\ Returned("split_into_sentences")
    /\ Len(raw_sentences) = 2
    /\ Len(result) = 1 /\ Len(result[1]) = 3

\* s has a letter: a word character that is no digit and no underscore
HasLetter(s) ==
    \E i \in 1..Len(s) : IsWord(s[i]) /\ ~IsDigit(s[i]) /\ s[i] # UNDERSCORE

\* the segments that split_into_sentences handed to the sentence filter
Segments ==
    UNION {Range(_split_quoted_segments(raw_sentences[k])) :
              k \in 1..Len(raw_sentences)}

\* C6: no sentence split_into_sentences returns is made of non-word
\* characters, digits and underscores only, and every segment whose cleaned
\* text has a letter and at least 3 characters is returned
C6_NoiseRejected ==
    Returned("split_into_sentences") =>
        /\ \A k \in 1..Len(result) : HasLetter(result[k])
        /\ \A seg \in Segments :
              LET t == sentence_text(seg)
              IN  (Len(t) >= 3 /\ HasLetter(t)) => t \in Range(result)

\* a segment whose cleaned text has 3 characters or more and no letter was
\* dropped
C6_Witness ==
    /\ Returned("split_into_sentences")
    /\ \E seg \in Segments :
          LET t == sentence_text(seg)
          IN  Len(t) >= 3 /\ ~HasLetter(t) /\ t \notin Range(result)

\* the maximal runs of word characters of s, left to right
RECURSIVE WordRuns(_)
WordRuns(s) ==
    IF Len(s) = 0 THEN <<>>
    ELSE IF IsWord(s[1])
         THEN LET k == Max({n \in 1..Len(s) : \A j \in 1..n : IsWord(s[j])})
              IN  <<SubSeq(s, 1, k)>> \o WordRuns(From(s, k + 1))
         ELSE WordRuns(Tail(s))

\* w is a run of 1 to 4 digits
IsDigitOrphan(w) == Len(w) \in 1..4 /\ \A i \in 1..Len(w) : IsDigit(w[i])

\* C7: no sentence split_into_sentences returns has an isolated run of 1 to 4
\* digits, and the word-character runs of a cleaned segment are those of the
\* segment without the isolated runs of 1 to 4 digits: longer digit runs and
\* digits next to other word characters are kept
C7_DigitOrphansRemoved ==
    Returned("split_into_sentences") =>
        /\ \A k \in 1..Len(result) :
              \A w \in Range(WordRuns(result[k])) : ~IsDigitOrphan(w)
        /\ \A seg \in Segments :
              WordRuns(sentence_text(seg))
                  = SelectSeq(WordRuns(seg), LAMBDA w : ~IsDigitOrphan(w))

\* the text had an isolated digit and an isolated run of 5 digits or more;
\* the one sentence returned lost the digit and kept the run
C7_Witness ==
    /\ Returned("split_into_sentences")
    /\ \E w \in Range(WordRuns(text)) : IsDigitOrphan(w)
    /\ Len(result) = 1
    /\ \E w \in Range(WordRuns(result[1])) :
          /\ Len(w) >= 5
          /\ \A i \in 1..Len(w) : IsDigit(w[i])
          /\ w \in Range(WordRuns(text))
    /\ Len(WordRuns(result[1])) < Len(WordRuns(text))

\* C8: when the text has a backslash-escaped double quote, no sentence
\* split_into_sentences returns has a backslash immediately followed by a
\* double quote
C8_NoEscapedQuoteInSentences ==
    (Returned("split_into_sentences") /\ HasEscapedQuote(text)) =>
        \A k \in 1..Len(result) : ~HasEscapedQuote(result[k])

Quotes == {DQUOTE, SQUOTE}

NonEmptyOnly(parts) == SelectSeq(parts, LAMBDA x : x # <<>>)

\* the segments A, qBq, C of a sentence with the quotes at i and j
ThreeSegments(s, i, j) ==
    NonEmptyOnly(<<strip(SubSeq(s, 1, i - 1), WHITESPACE),
                   SubSeq(s, i, j),
                   strip(From(s, j + 1), WHITESPACE)>>)

\* s has a quote character and, later, the same quote character
HasQuotePair(s, gap) ==
    \E i, j \in 1..Len(s) : j >= i + gap /\ s[i] \in Quotes /\ s[j] = s[i]

\* C9 as stated: a sentence A q B q C with B non-empty, q occurring nowhere
\* else, yields trimmed A, qBq, trimmed C without the empty parts, and a
\* sentence without a matching quote pair yields the trimmed sentence as its
\* only segment
C9_QuotedSegments ==
    Returned("_split_quoted_segments") =>
        /\ \A i, j \in 1..Len(text) :
              ( /\ j >= i + 2
                /\ text[i] \in Quotes /\ text[j] = text[i]
                /\ \A m \in 1..Len(text) : m \notin {i, j} => text[m] # text[i] )
              => result = ThreeSegments(text, i, j)
        /\ ~HasQuotePair(text, 1) => result = <<strip(text, WHITESPACE)>>

\* the quote at i opens a pair that the quote at j can close: the same
\* quote character two or more characters later on the same line
Closes(s, i, j) ==
    /\ j >= i + 2
    /\ s[i] \in Quotes /\ s[j] = s[i]
    /\ \A m \in (i + 1)..(j - 1) : s[m] # NEWLINE

\* the quotes of s from position from on that open a pair
Opens(s, from) == {i \in from..Len(s) : \E j \in 1..Len(s) : Closes(s, i, j)}

\* the quote pairs of s found left to right without overlap: the leftmost
\* quote that opens a pair with the nearest quote that closes it, then the
\* pairs to the right of that one
RECURSIVE QuotePairs(_, _)
QuotePairs(s, from) ==
    IF Opens(s, from) = {} THEN <<>>
    ELSE LET i == Min(Opens(s, from))
             j == Min({n \in 1..Len(s) : Closes(s, i, n)})
         IN  <<<<i, j>>>> \o QuotePairs(s, j + 1)

\* the trimmed text before and between the pairs, each followed by the
\* quoted span of its pair, and the trimmed text after the last pair
RECURSIVE Interleaved(_, _, _)
Interleaved(s, from, pairs) ==
    IF Len(pairs) = 0 THEN <<strip(From(s, from), WHITESPACE)>>
    ELSE LET p == Head(pairs)
         IN  <<strip(SubSeq(s, from, p[1] - 1), WHITESPACE),
               SubSeq(s, p[1], p[2])>>
             \o Interleaved(s, p[2] + 1, Tail(pairs))

\* C9 amended: a sentence A q B q C where the second q is the nearest one
\* that can close the first, B has no line feed, no quote of A opens a pair
\* and C holds no pair yields trimmed A, qBq, trimmed C without the empty
\* parts; in every sentence the pairs are found left to right without
\* overlap and the result is the trimmed text around them interleaved with
\* the quoted spans, empty parts dropped; a sentence without a pair yields
\* the trimmed sentence as its only segment, or no segment when the trimmed
\* sentence is empty
C9_QuotedSegmentsAmended ==
    Returned("_split_quoted_segments") =>
        /\ \A i, j \in 1..Len(text) :
              ( /\ Closes(text, i, j)
                /\ \A m \in (i + 2)..(j - 1) : text[m] # text[i]
                /\ Opens(text, 1) \cap (1..(i - 1)) = {}
                /\ \A m, n \in (j + 1)..Len(text) : ~Closes(text, m, n) )
              => result = ThreeSegments(text, i, j)
        /\ result = NonEmptyOnly(Interleaved(text, 1, QuotePairs(text, 1)))
        /\ Opens(text, 1) = {} =>
              result = NonEmptyOnly(<<strip(text, WHITESPACE)>>)

\* a sentence with a prefix and two quote pairs, one of each kind, gave
\* the prefix and the two quoted spans
C9_Witness ==
    /\ Returned("_split_quoted_segments")
    /\ Len(QuotePairs(text, 1)) = 2
    /\ text[QuotePairs(text, 1)[1][1]] # text[QuotePairs(text, 1)[2][1]]
    /\ QuotePairs(text, 1)[1][1] > 1
    /\ Len(result) = 3
    /\ result[1] = SubSeq(text, 1, QuotePairs(text, 1)[1][1] - 1)

\* the maximal runs of Hangul syllables of s
HangulRuns(s) ==
    {SubSeq(s, p[1], p[2]) :
        p \in {q \in (1..Len(s)) \X (1..Len(s)) :
                  /\ q[1] <= q[2]
                  /\ \A m \in q[1]..q[2] : IsHangul(s[m])
                  /\ q[1] = 1 \/ ~IsHangul(s[q[1] - 1])
                  /\ q[2] = Len(s) \/ ~IsHangul(s[q[2] + 1])}}

\* C10: extract_vocabulary returns the distinct maximal Hangul runs of the
\* cleaned text that have max(1, min_length) characters or more, in strictly
\* ascending code-point order
C10_Vocabulary ==
    Returned("extract_vocabulary") =>
        /\ Range(result)
              = {w \in HangulRuns(normalized) :
                    Len(w) >= 1 /\ Len(w) >= min_length}
        /\ \A k \in 1..(Len(result) - 1) : StrLess(result[k], result[k + 1])

\* the spacing pass inserted whitespace, the cleaned text has two Hangul runs
\* in descending order, min_length is below 1, and both runs were returned in
\* ascending order
C10_Witness ==
    /\ Returned("extract_vocabulary")
    /\ outcome.called /\ ~outcome.raises /\ outcome.value # text
    /\ min_length < 1
    /\ Len(KOREAN_PATTERN_findall(normalized)) = 2
    /\ Len(result) = 2
    /\ KOREAN_PATTERN_findall(normalized)[1] = result[2]

\* C11: with a min_length below 1 extract_vocabulary raises nothing and
\* returns the list it returns for min_length 1
C11_MinLengthClamped ==
    (pc = "done" /\ op = "extract_vocabulary" /\ min_length < 1) =>
        /\ ~raised
        /\ result = extract_vocabulary(spacer, text, outcome, 1).value

\* min_length was 0 and a word of one syllable was returned
C11_Witness ==
    /\ Returned("extract_vocabulary")
    /\ min_length = 0
    /\ \E k \in 1..Len(result) : Len(result[k]) = 1

\* the text is None, empty, or made of whitespace and \n escapes only
NormalizesToEmpty(t) == strip(pre_spacing(t), WHITESPACE) = <<>>

\* C12: for a text that is None, empty or normalizes to the empty string,
\* clean_text returns the empty string and split_into_sentences and
\* extract_vocabulary return the empty list, nothing is raised and
\* split_sentences is not called
C12_EmptyInput ==
    (pc = "done" /\ NormalizesToEmpty(text)) =>
        /\ ~raised
        /\ result = <<>>
        /\ kss_calls = 0

\* split_into_sentences was called on None with a spacer present
C12_Witness ==
    /\ Returned("split_into_sentences")
    /\ text = None
    /\ outcome.called
    /\ result = <<>>

RECURSIVE Concat(_)
Concat(seqs) ==
    IF Len(seqs) = 0 THEN <<>> ELSE Head(seqs) \o Concat(Tail(seqs))

\* the sentences kept from one raw sentence: the filter applied to each of
\* its quote-split segments from left to right, rejected ones left out
KeptOf(sentence) ==
    LET segs == _split_quoted_segments(sentence)
    IN  SelectSeq([i \in 1..Len(segs) |-> _normalize_sentence(segs[i])],
                  LAMBDA x : x # None /\ x # <<>>)

\* C20: the output of split_into_sentences is the kept sentences of the
\* first raw sentence, then those of the second, and so on, and holds no
\* None and no empty entry
C20_OrderPreserved ==
    Returned("split_into_sentences") =>
        /\ result = Concat([k \in 1..Len(raw_sentences) |->
                               KeptOf(raw_sentences[k])])
        /\ \A k \in 1..Len(result) : result[k] # None /\ result[k] # <<>>

\* split_sentences returned two sentences; the first gave one sentence and
\* the second gave two different ones, its text before a quoted part and
\* the quoted part
C20_Witness ==
    /\ Returned("split_into_sentences")
    /\ Len(raw_sentences) = 2
    /\ Len(KeptOf(raw_sentences[1])) = 1
    /\ Len(KeptOf(raw_sentences[2])) = 2
    /\ Len(_split_quoted_segments(raw_sentences[2])) = 2
    /\ Len(result) = 3
    /\ result[1] # result[2]
    /\ result[2] # result[3]

\* C13: the vocabulary response reports the threshold the filter used,
\* max(1, min_length); every listed word is at least that long and
\* vocabulary_count is the number of listed words
C13_EffectiveMinLength ==
    (request.name = "vocabulary" /\ response = OK) =>
        /\ returned.min_length = Max({1, request.arg})
        /\ \A k \in 1..Len(returned.vocabulary) :
              Len(returned.vocabulary[k]) >= returned.min_length
        /\ returned.vocabulary_count = Len(returned.vocabulary)

\* the operations of a store that take a document id
IdOperations ==
    {"get_raw_file_path", "get_raw_file_content", "load_ocr_text",
     "save_ocr_text", "save_sentences", "load_sentences"}

\* C14: in both backends an operation that takes a document id and is given
\* a string that is no UUID ends with HTTP 400 "Invalid document_id
\* format." without a file or S3 client call, and leaves the raw files,
\* the OCR texts and the sentence records as they were
C14_InvalidIdRejected ==
    [][(/\ calls' = calls + 1
        /\ request'.name \in IdOperations
        /\ uuid_UUID(request'.document_id) = "ValueError")
       => (/\ response' = HTTPException(400, INVALID_DOCUMENT_ID)
           /\ io' = <<>>
           /\ UNCHANGED <<raw_files, ocr_texts, sentence_records>>)]_vars

\* save_sentences was refused for "../etc/passwd" on a store that holds an
\* OCR text
C14_Witness ==
    /\ request.name = "save_sentences"
    /\ request.document_id = PATH_TRAVERSAL
    /\ response.status = 400
    /\ DOMAIN ocr_texts # {}
    /\ sentence_records = <<>>

\* C16: when S3 answers every request, S3FileStorage.get_raw_file_path
\* returns the key of the raw file stored for the document id whenever there
\* is one, and None only when there is none
C16_RawFileFound ==
    (/\ file_storage = "s3"
     /\ request.name = "get_raw_file_path"
     /\ response = OK
     /\ ~request.env)
    => LET stored == {k \in raw_files :
                         k.id = uuid_UUID(request.document_id)}
       IN  IF stored = {} THEN returned = NoKey ELSE returned \in stored

\* the messages of the ValueError S3FileStorage() raises
ValueErrorMessages ==
    {"S3 bucket name is required",
     "S3 bucket '{bucket_name}' does not exist",
     "Access denied to S3 bucket '{bucket_name}'",
     "Failed to verify S3 bucket '{bucket_name}': {e}"}

\* C17 as stated: S3FileStorage() with an empty bucket name raises
\* ValueError without an S3 client call; a failure of head_bucket makes it
\* raise ValueError with the message for the code 404, for 403 or, for any
\* other failure, the generic one; the object exists exactly when
\* head_bucket returned, and then head_bucket was the only client call, made
\* once with the configured bucket
C17_ConstructionFailsFast ==
    request.name = "S3FileStorage" =>
        LET bucket == request.arg
            head == request.env
        IN  /\ bucket = "" =>
                  init_error = "S3 bucket name is required" /\ io = <<>>
            /\ (bucket # "" /\ head = "404") =>
                  init_error = "S3 bucket '{bucket_name}' does not exist"
            /\ (bucket # "" /\ head = "403") =>
                  init_error = "Access denied to S3 bucket '{bucket_name}'"
            /\ (bucket # "" /\ head \notin {"ok", "404", "403"}) =>
                  init_error =
                      "Failed to verify S3 bucket '{bucket_name}': {e}"
            /\ file_storage = "s3" <=> (bucket # "" /\ head = "ok")
            /\ file_storage = "s3" =>
                  /\ init_error = ""
                  /\ bucket_name = bucket
                  /\ Len(io) = 1
                  /\ io[1].call = "head_bucket"
                  /\ io[1].bucket = bucket
            /\ file_storage # "s3" => init_error \in ValueErrorMessages

\* C17 amended: S3FileStorage() with an empty bucket name raises ValueError
\* without an S3 client call; a ClientError of head_bucket makes it raise
\* ValueError with the message for the code 404, for 403 or for any other
\* code; an exception of head_bucket that is no ClientError leaves the
\* constructor as it is, after the one head_bucket call; the object exists
\* exactly when head_bucket returned, and then head_bucket was the only
\* client call, made once with the configured bucket
C17_ConstructionFailsFastAmended ==
    request.name = "S3FileStorage" =>
        LET bucket == request.arg
            head == request.env
        IN  /\ bucket = "" =>
                  init_error = "S3 bucket name is required" /\ io = <<>>
            /\ (bucket # "" /\ head = "404") =>
                  init_error = "S3 bucket '{bucket_name}' does not exist"
            /\ (bucket # "" /\ head = "403") =>
                  init_error = "Access denied to S3 bucket '{bucket_name}'"
            /\ (bucket # "" /\ head \in ClientErrorCodes \ {"404", "403"}) =>
                  init_error =
                      "Failed to verify S3 bucket '{bucket_name}': {e}"
            /\ (bucket # "" /\ head \in ClientErrorCodes) =>
                  init_error \in ValueErrorMessages
            /\ (bucket # "" /\ head \notin ClientErrorCodes \cup {"ok"}) =>
                  /\ init_error = BOTOCORE_ERROR
                  /\ init_error \notin ValueErrorMessages
                  /\ Len(io) = 1
                  /\ io[1].call = "head_bucket"
            /\ file_storage = "s3" <=> (bucket # "" /\ head = "ok")
            /\ file_storage = "s3" =>
                  /\ init_error = ""
                  /\ bucket_name = bucket
                  /\ Len(io) = 1
                  /\ io[1].call = "head_bucket"
                  /\ io[1].bucket = bucket
            /\ file_storage # "s3" => init_error # ""

\* S3FileStorage("test-bucket") returned after one head_bucket call
C17_Witness ==
    /\ request.name = "S3FileStorage"
    /\ file_storage = "s3"
    /\ bucket_name = "test-bucket"
    /\ Len(io) = 1

\* the sentences or the vocabulary endpoint was called with a valid id
\* for which no save_ocr_text has completed
LoadedBeforeOcr ==
    /\ request.name \in {"sentences", "vocabulary"}
    /\ uuid_UUID(request.document_id) # "ValueError"
    /\ uuid_UUID(request.document_id) \notin saved_ocr

\* C15: for a valid document id load_ocr_text fails with HTTP 404 "OCR text
\* not found" unless a save_ocr_text for that id has completed, so the
\* sentences and vocabulary endpoints answer 404 and store no sentence
\* record for a document whose OCR has not succeeded
C15_OcrBeforeSentences ==
    /\ LoadedBeforeOcr => response = HTTPException(404, OCR_TEXT_NOT_FOUND)
    /\ DOMAIN sentence_records \subseteq saved_ocr

\* C15 as the code has it: without a completed save_ocr_text for the id,
\* load_ocr_text fails, with HTTP 404 "OCR text not found" when the text
\* is reported missing and, on S3 only, with HTTP 500 when get_object ends
\* with another client error; the two endpoints then return no result, and
\* no sentence record is ever stored for such a document
C15_OcrBeforeSentencesAmended ==
    /\ LoadedBeforeOcr =>
          \/ response = HTTPException(404, OCR_TEXT_NOT_FOUND)
          \/ /\ file_storage = "s3"
             /\ request.env["read"]
             /\ response = HTTPException(500, "Failed to load OCR text from S3")
    /\ (LoadedBeforeOcr /\ ~request.env["read"]) =>
          response = HTTPException(404, OCR_TEXT_NOT_FOUND)
    /\ (request.name \in {"sentences", "vocabulary"} /\ response = OK) =>
          uuid_UUID(request.document_id) \in saved_ocr
    /\ DOMAIN sentence_records \subseteq saved_ocr

\* the sentences endpoint answered 404 for an uploaded document that has
\* no OCR text yet, and stored nothing
C15_Witness ==
    /\ LoadedBeforeOcr
    /\ request.name = "sentences"
    /\ response.status = 404
    /\ \E k \in raw_files : k.id = uuid_UUID(request.document_id)
    /\ sentence_records = <<>>

\* C18: over any sequence of TextProcessor constructions and calls in one
\* process, Pecab is constructed at most once
C18_SpacerInitialisedOnce == pecab_inits <= 1

\* the spacer __init__ made for the shared processor
Constructed == IF pecab_inits > 0 THEN "Pecab" ELSE "None"

\* what the call of a thread returns when it runs alone on a processor with
\* the constructed spacer and the collaborators do what they did for it
Alone(th) ==
    CASE th.op = "clean_text" ->
             clean_text(Constructed, th.arg, th.outcome).value
      [] th.op = "split_into_sentences" ->
             split_into_sentences(Constructed, th.arg, th.outcome,
                                  th.raw).value
      [] OTHER -> extract_vocabulary(Constructed, th.arg, th.outcome, 1).value

\* C19: no call changes the spacer of the shared TextProcessor, and under
\* every interleaving each finished call has returned what it returns when
\* run alone: the spacer was used as a lone call uses it and the result is
\* that of the whole method on the call's own argument
C19_CallsIndependent ==
    /\ spacer = Constructed
    /\ \A t \in Threads :
          threads[t].pc = "done" =>
              /\ threads[t].outcome \in Outcomes(Constructed, threads[t].arg)
              /\ threads[t].result = Alone(threads[t])

\* one thread has finished a call in which spacing() raised while the other
\* is still inside its call, after spacing() returned a changed text
C19_Witness ==
    /\ threads["t1"].pc = "spaced"
    /\ threads["t1"].outcome.called
    /\ ~threads["t1"].outcome.raises
    /\ threads["t1"].normalized # pre_spacing(threads["t1"].arg)
    /\ threads["t2"].pc = "done"
    /\ threads["t2"].outcome.raises
    /\ threads["t2"].result # <<>>

\* s has two whitespace characters next to each other
HasWhitespaceRun(s) ==
    \E i \in 1..(Len(s) - 1) : IsSpace(s[i]) /\ IsSpace(s[i + 1])

\* s starts or ends with a character of SENTENCE_STRIP_CHARS
HasBoundaryEdge(s) ==
    Len(s) > 0 /\ (s[1] \in SENTENCE_STRIP_CHARS
                      \/ s[Len(s)] \in SENTENCE_STRIP_CHARS)

\* C21: a sentence returned by _normalize_sentence neither starts nor ends
\* with a character of SENTENCE_STRIP_CHARS and has no two whitespace
\* characters in a row
C21_SentenceTrimmed ==
    (Returned("_normalize_sentence") /\ result # None) =>
        /\ ~HasBoundaryEdge(result)
        /\ ~HasWhitespaceRun(result)

\* a sentence was returned for a segment that the first trim left alone and
\* in which removing a digit run exposed a hyphen at the end
C21_Witness ==
    /\ Returned("_normalize_sentence") /\ result # None
    /\ LET t1 == strip(text, SENTENCE_STRIP_CHARS)
           t2 == DIGIT_ORPHAN_PATTERN_sub(t1)
       IN  /\ t1 = text
           /\ Len(t2) < Len(t1)
           /\ t2[Len(t2)] = HYPHEN
           /\ t2 # result

\* segs are, in order, disjoint slices of s from position from on, and
\* every character of s outside the slices is whitespace
RECURSIVE SlicesOf(_, _, _)
SlicesOf(s, from, segs) ==
    IF Len(segs) = 0
    THEN \A m \in from..Len(s) : IsSpace(s[m])
    ELSE \E a \in from..Len(s) :
            /\ \A m \in from..(a - 1) : IsSpace(s[m])
            /\ a + Len(Head(segs)) - 1 <= Len(s)
            /\ SubSeq(s, a, a + Len(Head(segs)) - 1) = Head(segs)
            /\ SlicesOf(s, a + Len(Head(segs)), Tail(segs))

\* C22: the segments _split_quoted_segments returns are, in order, slices
\* of the sentence that leave out whitespace only, and each segment is
\* non-empty and has no whitespace at its start or end
C22_QuoteSplitConserves ==
    Returned("_split_quoted_segments") =>
        /\ SlicesOf(text, 1, result)
        /\ \A k \in 1..Len(result) :
              /\ result[k] # <<>>
              /\ ~IsSpace(result[k][1])
              /\ ~IsSpace(result[k][Len(result[k])])

\* a sentence was cut at a quoted part and whitespace next to the cut is in
\* no segment, while whitespace inside a segment was kept
C22_Witness ==
    /\ Returned("_split_quoted_segments")
    /\ Len(result) >= 2
    /\ Len(Concat(result)) < Len(text)
    /\ \E k \in 1..Len(result) : \E m \in 1..Len(result[k]) :
          IsSpace(result[k][m])

\* C23: a sentence returned by _normalize_sentence is returned unchanged by
\* _normalize_sentence
C23_FilterIdempotent ==
    (Returned("_normalize_sentence") /\ result # None) =>
        _normalize_sentence(result) = result

\* the filter removed a digit run from the segment, collapsed whitespace in
\* what was left and returned a sentence that differs from the segment
C23_Witness ==
    /\ Returned("_normalize_sentence") /\ result # None
    /\ result # text
    /\ LET t1 == strip(text, SENTENCE_STRIP_CHARS)
           t2 == DIGIT_ORPHAN_PATTERN_sub(t1)
           t3 == WHITESPACE_PATTERN_sub(t2)
       IN  t2 # t1 /\ t3 # t2

====
